---- MODULE Spec2Model ----
(***************************************************************************)
(* Model of security_lake_tools: the status command (status.py) and the    *)
(* parts of source creation (create_source.py) that the tests exercise.    *)
(*                                                                         *)
(* Python dicts are TLA+ functions whose DOMAIN is the set of keys that    *)
(* are present; lists are sequences; standard output is a sequence of      *)
(* lines, each line a record [l |-> label, v |-> value text].              *)
(***************************************************************************)
EXTENDS Integers, Sequences, FiniteSets, TLC

VARIABLES
    pc,              \* position of the running command
    args_region,     \* argparse value of --region (NoFlag when not given)
    session_region,  \* session.region_name (NoRegion when the profile has none)
    session_outcome, \* what boto3.Session(profile_name=...) does
    region,          \* the region main resolved
    issued,          \* remote list operations issued so far, in order
    response,        \* what the service answers to the operation under test
    results,         \* per query: what the get_* function gave back
    input,           \* argument of the print_* / create-source function under test
    now,             \* datetime.now(timezone.utc), in days
    out,             \* standard output, a sequence of lines
    rc,              \* <<>> until the command returns, then <<exit code>>
    event_classes    \* the OCSF_EVENT_CLASSES table as the process holds it

vars == <<pc, args_region, session_region, session_outcome, region, issued,
          response, results, input, now, out, rc, event_classes>>

----------------------------------------------------------------------------
(* Bounds of the model *)

MaxPages == 2      \* pages a paginated list operation returns at most
MaxPageLen == 1    \* records per page at most
MaxExc == 2        \* length of the exception list given to print_exceptions
MaxTime == 10      \* timestamps and the clock range over 0..MaxTime days

----------------------------------------------------------------------------
(* Python helpers *)

EmptyDict == [k \in {} |-> ""]

\* dict.get(k, default)
Get(d, k, default) == IF k \in DOMAIN d THEN d[k] ELSE default

\* truthiness of d.get(k) for a string, a list and a dict value
TruthyStr(d, k) == k \in DOMAIN d /\ d[k] # ""
TruthySeq(d, k) == k \in DOMAIN d /\ d[k] # <<>>
TruthyDict(d, k) == k \in DOMAIN d /\ DOMAIN d[k] # {}

\* f"{d.get(k, 'N/A')}" for an integer field
GetNum(d, k) == IF k \in DOMAIN d THEN ToString(d[k]) ELSE "N/A"

RECURSIVE Join(_, _)
\* sep.join(items)
Join(items, sep) ==
    IF items = <<>> THEN ""
    ELSE IF Len(items) = 1 THEN items[1]
    ELSE items[1] \o sep \o Join(Tail(items), sep)

\* An ARN is kept as its "/"-separated segments; arn.split("/")[-1]
LastSegment(arn) == arn[Len(arn)]

\* a string kept as segments is falsy exactly when it is ""
TruthyArn(d, k) == k \in DOMAIN d /\ d[k] # <<"">>

RECURSIVE Flatten(_)
\* concatenation of a sequence of sequences
Flatten(ss) == IF ss = <<>> THEN <<>> ELSE Head(ss) \o Flatten(Tail(ss))

\* [f(x) for x in s], concatenated
FlatMap(s, F(_)) == Flatten([i \in 1..Len(s) |-> F(s[i])])

\* print(f"{label}: {value}") and print(text)
Line(label, value) == [l |-> label, v |-> value]
Text(t) == [l |-> t, v |-> ""]
Blank == Text("")
Rule == Text("============================================================")
If(cond, lines) == IF cond THEN lines ELSE <<>>

\* an empty default label
NA_Blank == ""

NA == "N/A"
----------------------------------------------------------------------------
(* Rendering: print_data_lakes, print_exceptions, print_log_sources,       *)
(* print_subscribers.  Each operator gives the lines the function prints.  *)

TransitionLine(t) ==
    <<Line("  Transition to " \o Get(t, "storageClass", NA), GetNum(t, "days") \o " days")>>

LifecycleLines(lifecycle) ==
    If("expiration" \in DOMAIN lifecycle,
       <<Line("  Expiration", GetNum(Get(lifecycle, "expiration", EmptyDict), "days") \o " days")>>)
    \o If("transitions" \in DOMAIN lifecycle,
          FlatMap(Get(lifecycle, "transitions", <<>>), TransitionLine))

ReplicationLines(repl) ==
    If(TruthySeq(repl, "regions"),
       <<Line("  Replication Regions", Join(Get(repl, "regions", <<>>), ", "))>>)
    \o If(TruthyStr(repl, "roleArn"),
          <<Line("  Replication Role", Get(repl, "roleArn", ""))>>)

UpdateStatusLines(update) ==
    <<Line("  Update Status", Get(update, "status", NA))>>
    \o If(TruthyDict(update, "exception"),
          <<Line("  Update Exception", Get(Get(update, "exception", EmptyDict), "reason", NA))>>)

\* the body of the loop over data_lakes
LakeLines(lake) ==
    <<Line("  Region", Get(lake, "region", NA)),
      Line("  ARN", Get(lake, "dataLakeArn", NA)),
      Line("  S3 Bucket", Get(lake, "s3BucketArn", NA))>>
    \o If("encryptionConfiguration" \in DOMAIN lake,
          <<Line("  Encryption KMS Key",
                 Get(Get(lake, "encryptionConfiguration", EmptyDict), "kmsKeyId", "default"))>>)
    \o If("lifecycleConfiguration" \in DOMAIN lake,
          LifecycleLines(Get(lake, "lifecycleConfiguration", EmptyDict)))
    \o If("replicationConfiguration" \in DOMAIN lake,
          ReplicationLines(Get(lake, "replicationConfiguration", EmptyDict)))
    \o <<Line("  Status", Get(lake, "createStatus", NA))>>
    \o If(TruthyDict(lake, "updateStatus"),
          UpdateStatusLines(Get(lake, "updateStatus", EmptyDict)))
    \o <<Blank>>

print_data_lakes(data_lakes) ==
    <<Text("Data Lakes"), Rule>>
    \o (IF data_lakes = <<>>
        THEN <<Text("  No data lakes configured")>>
        ELSE FlatMap(data_lakes, LakeLines))
    \o <<Blank>>

CutoffDays == 7

\* cutoff = datetime.now(timezone.utc) - timedelta(days=7)
Cutoff(t) == t - CutoffDays

\* the boundary excluded: > where the code has >=
IsRecent_Exclusive(exc, cutoff) == Get(exc, "timestamp", cutoff) > cutoff

\* exc.get("timestamp", cutoff) >= cutoff
IsRecent(exc, cutoff) == Get(exc, "timestamp", cutoff) >= cutoff

\* recent = [exc for exc in exceptions if ...]
Recent(exceptions, cutoff) == SelectSeq(exceptions, LAMBDA exc : IsRecent(exc, cutoff))

\* the body of the loop over recent
ExceptionLines(exc) ==
    <<Line("  Region", Get(exc, "region", NA)),
      Line("  Exception", Get(exc, "exception", NA))>>
    \o If(TruthyStr(exc, "remediation"),
          <<Line("  Remediation", Get(exc, "remediation", ""))>>)
    \o If("timestamp" \in DOMAIN exc,
          <<Line("  Timestamp", GetNum(exc, "timestamp"))>>)
    \o <<Blank>>

print_exceptions(exceptions, t) ==
    <<Text("Data Lake Exceptions (last 7 days)"), Rule>>
    \o (IF Recent(exceptions, Cutoff(t)) = <<>>
        THEN <<Text("  No recent exceptions")>>
        ELSE FlatMap(Recent(exceptions, Cutoff(t)), ExceptionLines))
    \o <<Blank>>

CustomSourceLines(custom_src) ==
    <<Line("    Custom Source", Get(custom_src, "sourceName", NA)),
      Line("      Version", Get(custom_src, "sourceVersion", NA))>>
    \o If(TruthyDict(custom_src, "provider"),
          <<Line("      Location", Get(Get(custom_src, "provider", EmptyDict), "location", NA)),
            Line("      Role ARN", Get(Get(custom_src, "provider", EmptyDict), "roleArn", NA))>>)
    \o If(TruthyDict(custom_src, "attributes"),
          If(TruthyArn(Get(custom_src, "attributes", EmptyDict), "databaseArn"),
             <<Line("      Glue Database",
                    LastSegment(Get(Get(custom_src, "attributes", EmptyDict), "databaseArn", <<"">>)))>>)
          \o If(TruthyArn(Get(custom_src, "attributes", EmptyDict), "tableArn"),
                <<Line("      Glue Table",
                       LastSegment(Get(Get(custom_src, "attributes", EmptyDict), "tableArn", <<"">>)))>>))

\* the body of the loop over source["sources"]
NestedSourceLines(src) ==
    If("awsLogSource" \in DOMAIN src,
       <<Line("    AWS Source", Get(Get(src, "awsLogSource", EmptyDict), "sourceName", NA)),
         Line("      Version", Get(Get(src, "awsLogSource", EmptyDict), "sourceVersion", NA))>>)
    \o If("customLogSource" \in DOMAIN src,
          CustomSourceLines(Get(src, "customLogSource", EmptyDict)))

\* the body of the loop over sources
LogSourceLines(source) ==
    <<Line("  Account", Get(source, "account", NA) \o ", Region: " \o Get(source, "region", NA))>>
    \o If("sources" \in DOMAIN source,
          FlatMap(Get(source, "sources", <<>>), NestedSourceLines))
    \o <<Blank>>

print_log_sources(sources) ==
    <<Text("Log Sources"), Rule>>
    \o (IF sources = <<>>
        THEN <<Text("  No log sources configured")>>
        ELSE FlatMap(sources, LogSourceLines))
    \o <<Blank>>

\* the body of the loop over sub["sources"]
SubscriberSourceLines(src) ==
    If("awsLogSource" \in DOMAIN src,
       <<Line("    - AWS", Get(Get(src, "awsLogSource", EmptyDict), "sourceName", NA))>>)
    \o If("customLogSource" \in DOMAIN src,
          <<Line("    - Custom", Get(Get(src, "customLogSource", EmptyDict), "sourceName", NA))>>)

\* the body of the loop over subscribers
SubscriberLines(sub) ==
    <<Line("  Name", Get(sub, "subscriberName", NA)),
      Line("  ID", Get(sub, "subscriberId", NA)),
      Line("  ARN", Get(sub, "subscriberArn", NA)),
      Line("  Status", Get(sub, "subscriberStatus", NA))>>
    \o If(TruthyStr(sub, "subscriberDescription"),
          <<Line("  Description", Get(sub, "subscriberDescription", ""))>>)
    \o If(TruthyDict(sub, "subscriberIdentity"),
          <<Line("  Principal", Get(Get(sub, "subscriberIdentity", EmptyDict), "principal", NA)),
            Line("  External ID", Get(Get(sub, "subscriberIdentity", EmptyDict), "externalId", NA))>>)
    \o If(TruthySeq(sub, "accessTypes"),
          <<Line("  Access Types", Join(Get(sub, "accessTypes", <<>>), ", "))>>)
    \o If(TruthySeq(sub, "sources"),
          <<Text("  Sources:")>> \o FlatMap(Get(sub, "sources", <<>>), SubscriberSourceLines))
    \o If(TruthyStr(sub, "resourceShareArn"),
          <<Line("  Resource Share", Get(sub, "resourceShareArn", ""))>>)
    \o If(TruthyStr(sub, "s3BucketArn"),
          <<Line("  S3 Bucket", Get(sub, "s3BucketArn", ""))>>)
    \o If(TruthyStr(sub, "subscriberEndpoint"),
          <<Line("  Endpoint", Get(sub, "subscriberEndpoint", ""))>>)
    \o <<Blank>>

print_subscribers(subscribers) ==
    <<Text("Subscribers"), Rule>>
    \o (IF subscribers = <<>>
        THEN <<Text("  No subscribers configured")>>
        ELSE FlatMap(subscribers, SubscriberLines))
    \o <<Blank>>
----------------------------------------------------------------------------
(* The four query functions.  The service's answer to one list operation   *)
(* is the sequence of outcomes of the API calls the client makes for it:   *)
(* [kind |-> "ok", body |-> page] or [kind |-> <exception class>].          *)

Queries == <<"data_lakes", "exceptions", "log_sources", "subscribers">>
QuerySet == {Queries[i] : i \in 1..Len(Queries)}

\* exception classes botocore can raise from a client call; the last two
\* are BotoCoreError subclasses that are neither ClientError nor
\* TokenRetrievalError
ErrorKinds == {"ClientError", "TokenRetrievalError", "NoCredentialsError",
               "EndpointConnectionError"}

Unset == [status |-> "unset", items |-> <<>>, printed |-> <<>>]

\* return <list>
Returned(items) == [status |-> "list", items |-> items, printed |-> <<>>]

\* the except clauses of a get_* function; an exception no clause names
\* leaves the function
OnError(kind, what) ==
    IF kind = "ClientError"
    THEN [status |-> "None", items |-> <<>>,
          printed |-> <<Line("Failed to list " \o what, "<Error.Message>")>>]
    ELSE IF kind = "TokenRetrievalError"
    THEN [status |-> "None", items |-> <<>>,
          printed |-> <<Text("AWS SSO token has expired"),
                        Text("  Please refresh your SSO session:"),
                        Text("  aws sso login --profile <your-profile>")>>]
    ELSE [status |-> "raised", items |-> <<>>, printed |-> <<>>]

RECURSIVE Paginate(_, _, _, _)
\* for page in paginator.paginate(): acc.extend(page.get(key, []))
Paginate(pages, key, acc, what) ==
    IF pages = <<>> THEN Returned(acc)
    ELSE IF Head(pages).kind # "ok" THEN OnError(Head(pages).kind, what)
    ELSE Paginate(Tail(pages), key, acc \o Get(Head(pages).body, key, <<>>), what)

\* one list_data_lakes call, no paginator
get_data_lakes(resp) ==
    IF Head(resp).kind # "ok" THEN OnError(Head(resp).kind, "data lakes")
    ELSE Returned(Get(Head(resp).body, "dataLakes", <<>>))

get_data_lake_exceptions(resp) == Paginate(resp, "exceptions", <<>>, "data lake exceptions")

get_log_sources(resp) == Paginate(resp, "sources", <<>>, "log sources")

get_subscribers(resp) == Paginate(resp, "subscribers", <<>>, "subscribers")

\* the key of a response page that carries the records, per operation
PageKey(q) ==
    CASE q = "data_lakes" -> "dataLakes"
      [] q = "exceptions" -> "exceptions"
      [] q = "log_sources" -> "sources"
      [] q = "subscribers" -> "subscribers"

\* dispatch on the operation
GetQuery(q, resp) ==
    CASE q = "data_lakes" -> get_data_lakes(resp)
      [] q = "exceptions" -> get_data_lake_exceptions(resp)
      [] q = "log_sources" -> get_log_sources(resp)
      [] q = "subscribers" -> get_subscribers(resp)

(* What the service can answer *)

SeqsUpTo(S, n) == UNION {[1..m -> S] : m \in 0..n}

\* a page with up to MaxPageLen records, or without the key at all
Bodies(key, Recs) == {EmptyDict} \cup {(key :> s) : s \in SeqsUpTo(Recs, MaxPageLen)}

OkPages(key, Recs) == {[kind |-> "ok", body |-> b] : b \in Bodies(key, Recs)}
ErrPages == {[kind |-> e, body |-> EmptyDict] : e \in ErrorKinds}

\* n calls: all succeed, or the first n-1 succeed and the n-th raises
AnswersOfLen(key, Recs, n) ==
    [1..n -> OkPages(key, Recs)]
    \cup {pre \o <<e>> : pre \in [1..(n-1) -> OkPages(key, Recs)], e \in ErrPages}

\* ListDataLakes has no pagination token: its answer is a single call
Answers(q, Recs) ==
    IF q = "data_lakes" THEN AnswersOfLen(PageKey(q), Recs, 1)
    ELSE UNION {AnswersOfLen(PageKey(q), Recs, n) : n \in 1..MaxPages}
----------------------------------------------------------------------------
(* The status command: main and show_status *)

\* an optional string: <<>> is None, <<s>> is the string s
None == <<>>
Truthy(x) == x # None /\ x # <<"">>

\* session.region_name or args.region: the profile default shadows the flag
ResolveRegion_SessionFirst(flag, default) == IF Truthy(default) THEN default ELSE flag

\* args.region or session.region_name
ResolveRegion(flag, default) == IF Truthy(flag) THEN flag ELSE default

NoCredentialsLines ==
    <<Text("Error: No AWS credentials found"),
      Text("  Configure credentials using:"),
      Text("  - aws configure"),
      Text("  - Environment variables (AWS_ACCESS_KEY_ID, AWS_SECRET_ACCESS_KEY)"),
      Text("  - IAM role (if running on EC2)")>>

NoRegionLines ==
    <<Text("Error: No AWS region specified"),
      Text("  Provide a region using one of:"),
      Text("  - --region flag"),
      Text("  - AWS_DEFAULT_REGION environment variable"),
      Text("  - region setting in your AWS profile")>>

\* print(f"\nSecurity Lake Status (Region: {region})\n")
Banner(r) == <<Blank, Text("Security Lake Status (Region: " \o r[1] \o ")"), Blank>>

\* log sources queried before exceptions, exceptions never
NextStage_Swapped(q) ==
    CASE q = "data_lakes" -> "get_log_sources"
      [] q = "exceptions" -> "get_log_sources"
      [] q = "log_sources" -> "get_subscribers"
      [] q = "subscribers" -> "print"

\* the stage show_status runs after query q returned a list
NextStage(q) ==
    CASE q = "data_lakes" -> "get_data_lake_exceptions"
      [] q = "exceptions" -> "get_log_sources"
      [] q = "log_sources" -> "get_subscribers"
      [] q = "subscribers" -> "print"

\* the None test left out: a failed query does not stop the run
StageAfter_NoCheck(q, r) ==
    IF r.status = "raised" THEN "raised"
    ELSE CASE q = "data_lakes" -> "get_data_lake_exceptions"
           [] q = "exceptions" -> "get_log_sources"
           [] q = "log_sources" -> "get_subscribers"
           [] q = "subscribers" -> "print"

\* if <result> is None: return 1
StageAfter(q, r) ==
    IF r.status = "raised" THEN "raised"
    ELSE IF r.status = "None" THEN "done"
    ELSE NextStage(q)

\* return 0 where the code returns 1
RcAfter_Zero(r, old) == IF r.status = "None" THEN <<0>> ELSE old

RcAfter(r, old) == IF r.status = "None" THEN <<1>> ELSE old

\* the records the service holds in a run of the command
SampleLake == [region |-> "us-east-1", dataLakeArn |-> "arn:lake", createStatus |-> "COMPLETED"]
SampleException == [region |-> "us-east-1", exception |-> "bucket missing", timestamp |-> CutoffDays]
SampleLogSource == [account |-> "123456789012", region |-> "us-east-1"]
SampleSubscriber == [subscriberName |-> "siem", subscriberId |-> "s-1"]

ServiceRecords(q) ==
    CASE q = "data_lakes" -> {SampleLake}
      [] q = "exceptions" -> {SampleException}
      [] q = "log_sources" -> {SampleLogSource}
      [] q = "subscribers" -> {SampleSubscriber}

Clock == CutoffDays..MaxTime

Idle ==
    /\ region = None
    /\ issued = <<>>
    /\ response = <<>>
    /\ results = [q \in QuerySet |-> Unset]
    /\ input = <<>>
    /\ out = <<>>
    /\ rc = <<>>
    /\ event_classes = <<>>

Init ==
    /\ pc = "main"
    /\ args_region \in {None, <<"">>, <<"us-east-1">>}
    /\ session_region \in {None, <<"eu-west-1">>}
    /\ session_outcome \in {"ok", "NoCredentialsError", "ProfileNotFound"}
    /\ now \in Clock
    /\ Idle

\* main() up to the call of show_status
Main ==
    /\ pc = "main"
    /\ IF session_outcome = "NoCredentialsError"
       THEN /\ out' = out \o NoCredentialsLines
            /\ rc' = <<1>>
            /\ pc' = "done"
            /\ UNCHANGED region
       ELSE IF session_outcome # "ok"
       THEN /\ pc' = "raised"
            /\ UNCHANGED <<out, rc, region>>
       ELSE IF ~Truthy(ResolveRegion(args_region, session_region))
       THEN /\ out' = out \o NoRegionLines
            /\ rc' = <<1>>
            /\ pc' = "done"
            /\ UNCHANGED region
       ELSE /\ region' = ResolveRegion(args_region, session_region)
            /\ pc' = "show_status"
            /\ UNCHANGED <<out, rc>>
    /\ UNCHANGED <<args_region, session_region, session_outcome, issued, response,
                   results, input, now, event_classes>>

\* one query of show_status and the test of its result
QueryStep(q) ==
    \E resp \in Answers(q, ServiceRecords(q)) :
        LET r == GetQuery(q, resp) IN
        /\ issued' = Append(issued, q)
        /\ results' = [results EXCEPT ![q] = r]
        /\ out' = out \o (IF q = "data_lakes" THEN Banner(region) ELSE <<>>) \o r.printed
        /\ pc' = StageAfter(q, r)
        /\ rc' = RcAfter(r, rc)
        /\ UNCHANGED <<args_region, session_region, session_outcome, region, response,
                       input, now, event_classes>>

ShowStatusDataLakes == pc = "show_status" /\ QueryStep("data_lakes")

ShowStatusExceptions == pc = "get_data_lake_exceptions" /\ QueryStep("exceptions")

ShowStatusLogSources == pc = "get_log_sources" /\ QueryStep("log_sources")

ShowStatusSubscribers == pc = "get_subscribers" /\ QueryStep("subscribers")

\* the four print_* calls and return 0
ShowStatusPrint ==
    /\ pc = "print"
    /\ out' = out \o print_data_lakes(results["data_lakes"].items)
                  \o print_exceptions(results["exceptions"].items, now)
                  \o print_log_sources(results["log_sources"].items)
                  \o print_subscribers(results["subscribers"].items)
    /\ rc' = <<0>>
    /\ pc' = "done"
    /\ UNCHANGED <<args_region, session_region, session_outcome, region, issued,
                   response, results, input, now, event_classes>>

Next ==
    \/ Main
    \/ ShowStatusDataLakes
    \/ ShowStatusExceptions
    \/ ShowStatusLogSources
    \/ ShowStatusSubscribers
    \/ ShowStatusPrint

Spec == Init /\ [][Next]_vars
----------------------------------------------------------------------------
(* Properties of the status command, checked under Spec *)

Finished == pc \in {"done", "raised"}
AllSucceeded == \A q \in QuerySet : results[q].status = "list"
SomeFailed == \E q \in QuerySet : results[q].status \in {"None", "raised"}

SectionTitles ==
    <<"Data Lakes", "Data Lake Exceptions (last 7 days)", "Log Sources", "Subscribers">>

\* the section title lines of an output, in the order printed
Sections(o) ==
    SelectSeq(o, LAMBDA ln : ln.v = "" /\ \E i \in 1..Len(SectionTitles) : ln.l = SectionTitles[i])

\* C1 (as amended): a run of show_status either renders all four sections,
\* in the fixed order and only after all four queries returned a list, or
\* renders no section at all; in particular no section is rendered before
\* or after a failed query.
C1_SnapshotOrNoSection ==
    /\ rc = <<0>> =>
          /\ AllSucceeded
          /\ Len(issued) = Len(Queries)
          /\ Sections(out) = [i \in 1..Len(SectionTitles) |-> Text(SectionTitles[i])]
    /\ rc # <<0>> => Sections(out) = <<>>

\* a run whose last query failed after three that returned records
C1_Witness ==
    /\ pc = "done"
    /\ rc = <<1>>
    /\ Len(issued) = Len(Queries)
    /\ \A i \in 1..(Len(Queries) - 1) : results[Queries[i]].items # <<>>
    /\ Sections(out) = <<>>

\* C1 (original): a failing run of show_status produces no output at all,
\* and a succeeding run shows the four sections.
C1_Original ==
    /\ rc = <<0>> => Len(Sections(out)) = Len(SectionTitles)
    /\ (Finished /\ issued # <<>> /\ rc # <<0>>) => out = <<>>

\* C2: show_status returns 0 exactly when all four queries returned a list
\* (an empty list included), returns 1 whenever a query returned None, and
\* returns nothing else.
C2_ExitCode ==
    /\ (pc = "done" /\ issued # <<>>) =>
          /\ rc \in {<<0>>, <<1>>}
          /\ rc = <<0>> <=> AllSucceeded
    /\ (\E q \in QuerySet : results[q].status = "None") => (pc = "done" /\ rc = <<1>>)

\* every query returned an empty list and the run returned 0
C2_Witness ==
    /\ pc = "done"
    /\ rc = <<0>>
    /\ \A q \in QuerySet : results[q].status = "list" /\ results[q].items = <<>>

\* C5: no failure of a remote call leaves a query function as an exception.
C5_NoEscape == ~(pc = "raised" /\ issued # <<>>)

C10_QueryOrder ==
    /\ Len(issued) <= Len(Queries)
    /\ \A i \in 1..Len(issued) : issued[i] = Queries[i]
    /\ \A i \in 1..(Len(issued) - 1) : results[issued[i]].status = "list"
    /\ \A q \in QuerySet : results[q].status # "unset" => \E i \in 1..Len(issued) : issued[i] = q
    /\ SomeFailed => (Finished /\ results[issued[Len(issued)]].status \in {"None", "raised"})

\* the third query failed: three queries issued, the fourth never
C10_Witness ==
    /\ pc = "done"
    /\ issued = SubSeq(Queries, 1, 3)
    /\ results["log_sources"].status = "None"
    /\ results["subscribers"].status = "unset"
----------------------------------------------------------------------------
(* One query function called on its own, on every answer of the service   *)

\* opaque records, told apart by their id
QueryRecords == {[id |-> "a"], [id |-> "b"]}

InitQuery ==
    /\ pc = "call"
    /\ \E q \in QuerySet :
          /\ input = [fn |-> q, arg |-> <<>>]
          /\ response \in Answers(q, QueryRecords)
    /\ args_region = None
    /\ session_region = None
    /\ session_outcome = "ok"
    /\ now \in {MaxTime}
    /\ region = <<"us-east-1">>
    /\ issued = <<>>
    /\ results = [q \in QuerySet |-> Unset]
    /\ out = <<>>
    /\ rc = <<>>
    /\ event_classes = <<>>

\* get_<q>(session, region) against the answer held in response
CallQuery(q) ==
    /\ pc = "call"
    /\ input.fn = q
    /\ results' = [results EXCEPT ![q] = GetQuery(q, response)]
    /\ out' = out \o GetQuery(q, response).printed
    /\ issued' = Append(issued, q)
    /\ pc' = IF GetQuery(q, response).status = "raised" THEN "raised" ELSE "returned"
    /\ UNCHANGED <<args_region, session_region, session_outcome, region, response,
                   input, now, rc, event_classes>>

CallGetDataLakes == CallQuery("data_lakes")

CallGetDataLakeExceptions == CallQuery("exceptions")

CallGetLogSources == CallQuery("log_sources")

CallGetSubscribers == CallQuery("subscribers")

NextQuery ==
    \/ CallGetDataLakes
    \/ CallGetDataLakeExceptions
    \/ CallGetLogSources
    \/ CallGetSubscribers

SpecQuery == InitQuery /\ [][NextQuery]_vars

\* the answer has no failed call
AnswerOk(resp) == \A i \in 1..Len(resp) : resp[i].kind = "ok"

\* the records of every page of an answer, in the order the service gave them
AllRecords(q, resp) ==
    Flatten([i \in 1..Len(resp) |->
                IF PageKey(q) \in DOMAIN resp[i].body THEN resp[i].body[PageKey(q)] ELSE <<>>])

\* C4: each list function returns the records of all pages in the order
\* the service gave them, or None; when a call fails on any page it
\* returns None, never a partial list.
C4_AllPagesOrNone ==
    pc # "call" =>
        IF AnswerOk(response)
        THEN /\ results[input.fn].status = "list"
             /\ results[input.fn].items = AllRecords(input.fn, response)
        ELSE results[input.fn].status = "None"

\* what holds of the code: all pages, or None, or the exception leaves the
\* function; never a partial list
C4_NeverPartial ==
    pc # "call" =>
        IF AnswerOk(response)
        THEN /\ results[input.fn].status = "list"
             /\ results[input.fn].items = AllRecords(input.fn, response)
        ELSE /\ results[input.fn].status \in {"None", "raised"}
             /\ results[input.fn].items = <<>>
----------------------------------------------------------------------------
(* The print_* functions called on their own *)

\* the parts of the state a print_* call does not touch
NoCommand ==
    /\ args_region = None
    /\ session_region = None
    /\ session_outcome = "ok"
    /\ region = <<"us-east-1">>
    /\ issued = <<>>
    /\ response = <<>>
    /\ results = [q \in QuerySet |-> Unset]
    /\ out = <<>>
    /\ rc = <<>>
    /\ event_classes = <<>>

PrintCall(fn, lines) ==
    /\ pc = "call"
    /\ input.fn = fn
    /\ out' = out \o lines
    /\ pc' = "returned"
    /\ UNCHANGED <<args_region, session_region, session_outcome, region, issued,
                   response, results, input, now, rc, event_classes>>

PrintDataLakes == PrintCall("print_data_lakes", print_data_lakes(input.arg))

PrintExceptions == PrintCall("print_exceptions", print_exceptions(input.arg, now))

PrintLogSources == PrintCall("print_log_sources", print_log_sources(input.arg))

PrintSubscribers == PrintCall("print_subscribers", print_subscribers(input.arg))

\* all dicts that take one dict of each of two sets
Both(A, B) == {a @@ b : a \in A, b \in B}

\* key k absent, or present with a value of Vals
Opt(k, Vals) == {EmptyDict} \cup {(k :> v) : v \in Vals}

(* print_exceptions on lists of exceptions with and without timestamps *)

TimedExceptions ==
    Both({[exception |-> "e1"], [exception |-> "e2"]}, Opt("timestamp", 0..MaxTime))

InitExceptions ==
    /\ pc = "call"
    /\ \E excs \in SeqsUpTo(TimedExceptions, MaxExc) :
          input = [fn |-> "print_exceptions", arg |-> excs]
    /\ now \in Clock
    /\ NoCommand

NextExceptions == PrintExceptions

SpecExceptions == InitExceptions /\ [][NextExceptions]_vars

\* the entries an output shows: their Exception and Timestamp lines
ShownEntries(o) == SelectSeq(o, LAMBDA ln : ln.l \in {"  Exception", "  Timestamp"})

RECURSIVE ExpectedEntries(_, _)
\* the entries of the input that have no timestamp or one not older than
\* seven days before t, in input order
ExpectedEntries(excs, t) ==
    IF excs = <<>> THEN <<>>
    ELSE (IF "timestamp" \notin DOMAIN Head(excs)
          THEN <<[l |-> "  Exception", v |-> Head(excs).exception]>>
          ELSE IF Head(excs).timestamp + 7 >= t
          THEN <<[l |-> "  Exception", v |-> Head(excs).exception],
                 [l |-> "  Timestamp", v |-> ToString(Head(excs).timestamp)]>>
          ELSE <<>>)
         \o ExpectedEntries(Tail(excs), t)

\* C3: print_exceptions renders exactly the exceptions whose timestamp is
\* at or after now - 7 days, and those without a timestamp, in input order.
C3_RecentExceptions ==
    pc = "returned" => ShownEntries(out) = ExpectedEntries(input.arg, now)

\* an exception exactly seven days old is shown, an older one before it is not
C3_Witness ==
    /\ pc = "returned"
    /\ Len(input.arg) = 2
    /\ "timestamp" \in DOMAIN input.arg[1]
    /\ "timestamp" \in DOMAIN input.arg[2]
    /\ input.arg[1].timestamp = now - 8
    /\ input.arg[2].timestamp = now - 7
    /\ ShownEntries(out) = <<[l |-> "  Exception", v |-> input.arg[2].exception],
                             [l |-> "  Timestamp", v |-> ToString(now - 7)]>>
(* The print_* functions on records with every combination of optional    *)
(* fields present and absent                                               *)

Transitions ==
    {<<>>, <<EmptyDict>>, <<[storageClass |-> "GLACIER", days |-> 30], [days |-> 60]>>}

LifecycleConfigurations ==
    Both(Opt("expiration", {EmptyDict, [days |-> 90]}), Opt("transitions", Transitions))

ReplicationConfigurations ==
    Both(Opt("regions", {<<>>, <<"eu-west-1", "eu-west-2">>}), Opt("roleArn", {"", "arn:repl"}))

UpdateStatuses ==
    Both(Opt("status", {"FAILED"}), Opt("exception", {EmptyDict, [reason |-> "denied"]}))

DataLakes ==
    Both(Both(Both(Opt("region", {"us-east-1"}), Opt("dataLakeArn", {"arn:lake"})),
              Both(Opt("s3BucketArn", {"arn:bucket"}), Opt("createStatus", {"COMPLETED"}))),
         Both(Both(Opt("encryptionConfiguration", {EmptyDict, [kmsKeyId |-> "key-1"]}),
                   Opt("lifecycleConfiguration", LifecycleConfigurations)),
              Both(Opt("replicationConfiguration", ReplicationConfigurations),
                   Opt("updateStatus", UpdateStatuses))))

DataLakeExceptions ==
    Both(Both(Opt("region", {"us-east-1"}), Opt("exception", {"bucket missing"})),
         Both(Opt("remediation", {"", "recreate"}), Opt("timestamp", {0, MaxTime})))

GlueArns == {<<"">>, <<"arn:aws:glue:us-east-1:123456789012:table", "db", "tbl">>}

CustomLogSources ==
    Both(Both(Opt("sourceName", {"tnz-ocsf-1001"}), Opt("sourceVersion", {"1.0"})),
         Both(Opt("provider", {EmptyDict, [location |-> "s3://bucket/ext/"], [roleArn |-> "arn:role"]}),
              Opt("attributes", {EmptyDict} \cup Both(Opt("databaseArn", GlueArns), Opt("tableArn", GlueArns)))))

AwsLogSources == Both(Opt("sourceName", {"ROUTE53"}), Opt("sourceVersion", {"2.0"}))

NestedSources ==
    {EmptyDict}
    \cup {[awsLogSource |-> a] : a \in AwsLogSources}
    \cup {[customLogSource |-> c] : c \in CustomLogSources}
    \cup {[awsLogSource |-> EmptyDict, customLogSource |-> EmptyDict]}

LogSources ==
    Both(Both(Opt("account", {"123456789012"}), Opt("region", {"us-east-1"})),
         Opt("sources", {<<>>} \cup {<<n>> : n \in NestedSources}
                        \cup {<<[awsLogSource |-> EmptyDict], [customLogSource |-> EmptyDict]>>}))

SubscriberSources ==
    {<<>>, <<EmptyDict>>, <<[awsLogSource |-> [sourceName |-> "ROUTE53"]], [customLogSource |-> EmptyDict]>>}

Subscribers ==
    Both(Both(Both(Opt("subscriberName", {"siem"}), Opt("subscriberId", {"s-1"})),
              Both(Opt("subscriberArn", {"arn:sub"}), Opt("subscriberStatus", {"ACTIVE"}))),
         Both(Both(Both(Opt("subscriberDescription", {"", "the siem"}),
                        Opt("subscriberIdentity", {EmptyDict, [principal |-> "123456789012"]})),
                   Both(Opt("accessTypes", {<<>>, <<"S3", "LAKEFORMATION">>}),
                        Opt("sources", SubscriberSources))),
              Both(Both(Opt("resourceShareArn", {"arn:share"}), Opt("s3BucketArn", {"arn:bucket"})),
                   Opt("subscriberEndpoint", {"https://siem"}))))

\* an empty list, or a list of one record
UpToOne(Recs) == {<<>>} \cup {<<r>> : r \in Recs}

InitRender ==
    /\ pc = "call"
    /\ \/ \E a \in UpToOne(DataLakes) : input = [fn |-> "print_data_lakes", arg |-> a]
       \/ \E a \in UpToOne(DataLakeExceptions) : input = [fn |-> "print_exceptions", arg |-> a]
       \/ \E a \in UpToOne(LogSources) : input = [fn |-> "print_log_sources", arg |-> a]
       \/ \E a \in UpToOne(Subscribers) : input = [fn |-> "print_subscribers", arg |-> a]
    /\ now \in {MaxTime}
    /\ NoCommand

NextRender ==
    \/ PrintDataLakes
    \/ PrintExceptions
    \/ PrintLogSources
    \/ PrintSubscribers

SpecRender == InitRender /\ [][NextRender]_vars
\* the fields a print_* function prints for every record: <<label, key>>
FixedFields(fn) ==
    CASE fn = "print_data_lakes" ->
            <<<<"  Region", "region">>, <<"  ARN", "dataLakeArn">>,
              <<"  S3 Bucket", "s3BucketArn">>, <<"  Status", "createStatus">>>>
      [] fn = "print_exceptions" ->
            <<<<"  Region", "region">>, <<"  Exception", "exception">>>>
      [] fn = "print_log_sources" -> <<>>
      [] fn = "print_subscribers" ->
            <<<<"  Name", "subscriberName">>, <<"  ID", "subscriberId">>,
              <<"  ARN", "subscriberArn">>, <<"  Status", "subscriberStatus">>>>

\* the lines a print_* function prints only for some records, each with
\* the key of the record it depends on: <<label, key>>
OptionalFields(fn) ==
    CASE fn = "print_data_lakes" ->
            {<<"  Encryption KMS Key", "encryptionConfiguration">>,
             <<"  Expiration", "lifecycleConfiguration">>,
             <<"  Replication Regions", "replicationConfiguration">>,
             <<"  Replication Role", "replicationConfiguration">>,
             <<"  Update Status", "updateStatus">>,
             <<"  Update Exception", "updateStatus">>}
      [] fn = "print_exceptions" ->
            {<<"  Remediation", "remediation">>, <<"  Timestamp", "timestamp">>}
      [] fn = "print_log_sources" ->
            {<<"    AWS Source", "sources">>, <<"    Custom Source", "sources">>}
      [] fn = "print_subscribers" ->
            {<<"  Description", "subscriberDescription">>,
             <<"  Principal", "subscriberIdentity">>,
             <<"  External ID", "subscriberIdentity">>,
             <<"  Access Types", "accessTypes">>,
             <<"  Sources:", "sources">>,
             <<"  Resource Share", "resourceShareArn">>,
             <<"  S3 Bucket", "s3BucketArn">>,
             <<"  Endpoint", "subscriberEndpoint">>}

HasLabel(o, label) == \E i \in 1..Len(o) : o[i].l = label

\* the value of a field, or the default label when the record lacks it
OrDefault(d, k) == IF k \in DOMAIN d THEN d[k] ELSE "N/A"

\* one record was given and its entry is in the output
OneRecordShown ==
    /\ pc = "returned"
    /\ Len(input.arg) = 1
    /\ input.fn = "print_exceptions" =>
          \/ "timestamp" \notin DOMAIN input.arg[1]
          \/ input.arg[1].timestamp + 7 >= now

\* C9 (as amended): the fields printed for every record (data lake: region,
\* ARN, S3 bucket, create status; exception: region, exception; log source:
\* account, region; subscriber: name, id, ARN, status) show "N/A" when the
\* record lacks them; the lines of the other optional fields are left out
\* when the record lacks the field.
C9_FixedFieldsDefault ==
    OneRecordShown =>
        /\ SelectSeq(out, LAMBDA ln :
                \E i \in 1..Len(FixedFields(input.fn)) : ln.l = FixedFields(input.fn)[i][1])
             = [i \in 1..Len(FixedFields(input.fn)) |->
                    [l |-> FixedFields(input.fn)[i][1],
                     v |-> OrDefault(input.arg[1], FixedFields(input.fn)[i][2])]]
        /\ input.fn = "print_log_sources" =>
              out[3] = [l |-> "  Account",
                        v |-> OrDefault(input.arg[1], "account") \o ", Region: "
                              \o OrDefault(input.arg[1], "region")]
        /\ \A f \in OptionalFields(input.fn) :
              f[2] \notin DOMAIN input.arg[1] => ~HasLabel(out, f[1])

\* a subscriber with no field at all: four N/A lines and nothing else
C9_Witness ==
    /\ pc = "returned"
    /\ input.fn = "print_subscribers"
    /\ input.arg = <<EmptyDict>>
    /\ out = <<[l |-> "Subscribers", v |-> ""],
               [l |-> "============================================================", v |-> ""],
               [l |-> "  Name", v |-> "N/A"],
               [l |-> "  ID", v |-> "N/A"],
               [l |-> "  ARN", v |-> "N/A"],
               [l |-> "  Status", v |-> "N/A"],
               [l |-> "", v |-> ""],
               [l |-> "", v |-> ""]>>

\* C9 (original): every displayed optional field shows a default instead
\* of being left out, so a record's lines carry the same labels whichever
\* optional fields it has.
C9_Original ==
    OneRecordShown =>
        /\ \A i \in 1..Len(FixedFields(input.fn)) : HasLabel(out, FixedFields(input.fn)[i][1])
        /\ \A f \in OptionalFields(input.fn) : HasLabel(out, f[1])
----------------------------------------------------------------------------
(* Source creation: create_custom_source and verify_glue_role.  The code   *)
(* of create_source.py is modelled from its description and its tests.     *)

\* the entries of the classification table the tests name
OCSF_EVENT_CLASSES ==
    [c \in {"1001", "2001", "3001", "4001"} |->
        CASE c = "1001" -> "FILE_ACTIVITY"
          [] c = "2001" -> "SECURITY_FINDING"
          [] c = "3001" -> "ACCOUNT_CHANGE"
          [] c = "4001" -> "NETWORK_ACTIVITY"]

ClassUids == {"1001", "2001", "3001", "4001", "9999", "0000", "", "1002"}

\* role ARNs as their "/"-separated segments
RoleArns ==
    {<<"arn:aws:iam::123456789012:role", "test-role">>,
     <<"arn:aws:iam::123456789012:role", "glue-role">>,
     <<"arn:aws:iam::123456789012:role", "Provider">>,
     <<"arn:aws:iam::210987654321:role", "test-role">>}

\* the segment after "role/"
RoleName(role_arn) == role_arn[2]

\* every code is let through
ValidCode_Any(class_uid, table) == TRUE

\* validateCode: the code is a key of the table
ValidCode(class_uid, table) == class_uid \in DOMAIN table

\* an error other than "not found" is passed on to the caller
VerifyResult_Propagate(outcome) ==
    IF outcome = "ok" THEN "True" ELSE IF outcome = "NoSuchEntity" THEN "False" ELSE "raised"

\* verifyRole: true only if the lookup succeeds
VerifyResult(outcome) == IF outcome = "ok" THEN "True" ELSE "False"

InitProvision ==
    /\ pc = "call"
    /\ \/ \E uid \in ClassUids, arn \in RoleArns :
             /\ input = [fn |-> "create_custom_source", class_uid |-> uid, role_arn |-> arn]
             /\ response \in {"ok", "ClientError"}
       \/ \E arn \in RoleArns :
             /\ input = [fn |-> "verify_glue_role", role_arn |-> arn]
             /\ response \in {"ok", "NoSuchEntity", "AccessDenied"}
    /\ args_region = None
    /\ session_region = None
    /\ session_outcome = "ok"
    /\ region = <<"us-east-1">>
    /\ now \in {MaxTime}
    /\ issued = <<>>
    /\ results = [q \in QuerySet |-> Unset]
    /\ out = <<>>
    /\ rc = <<>>
    /\ event_classes = OCSF_EVENT_CLASSES

\* create_custom_source(class_uid, region, account_id, external_id, role_arn, session)
CreateCustomSource ==
    /\ pc = "call"
    /\ input.fn = "create_custom_source"
    /\ IF ~ValidCode(input.class_uid, event_classes)
       THEN /\ rc' = <<"False">>
            /\ out' = out \o <<Line("Invalid OCSF class UID", input.class_uid)>>
            /\ UNCHANGED issued
       ELSE /\ issued' = Append(issued, [op |-> "create_custom_log_source",
                                         arg |-> Get(event_classes, input.class_uid, "")])
            /\ rc' = IF response = "ok" THEN <<"True">> ELSE <<"False">>
            /\ out' = out \o (IF response = "ok" THEN <<Text("Created custom log source")>>
                              ELSE <<Line("Failed to create custom log source", "<Error.Message>")>>)
    /\ pc' = "returned"
    /\ UNCHANGED <<args_region, session_region, session_outcome, region, response,
                   results, input, now, event_classes>>

\* verify_glue_role(session, role_arn)
VerifyGlueRole ==
    /\ pc = "call"
    /\ input.fn = "verify_glue_role"
    /\ issued' = Append(issued, [op |-> "get_role", arg |-> RoleName(input.role_arn)])
    /\ rc' = IF VerifyResult(response) = "raised" THEN rc ELSE <<VerifyResult(response)>>
    /\ pc' = IF VerifyResult(response) = "raised" THEN "raised" ELSE "returned"
    /\ out' = out \o (IF response \in {"ok", "NoSuchEntity"} THEN <<>>
                      ELSE <<Line("Warning: could not verify role", "<Error.Message>")>>)
    /\ UNCHANGED <<args_region, session_region, session_outcome, region, response,
                   results, input, now, event_classes>>

NextProvision ==
    \/ CreateCustomSource
    \/ VerifyGlueRole

SpecProvision == InitProvision /\ [][NextProvision]_vars

\* C7: a classification code that is not a key of the table makes
\* create_custom_source return false with no remote call issued, and the
\* table is never changed.
C7_UnknownCodeRejected ==
    /\ event_classes = OCSF_EVENT_CLASSES
    /\ (pc # "call" /\ input.fn = "create_custom_source"
           /\ input.class_uid \notin {"1001", "2001", "3001", "4001"}) =>
          /\ rc = <<"False">>
          /\ issued = <<>>

\* create_custom_source("9999", ...) returned false without a call
C7_Witness ==
    /\ pc = "returned"
    /\ input.fn = "create_custom_source"
    /\ input.class_uid = "9999"
    /\ rc = <<"False">>
    /\ issued = <<>>

\* C8: verify_glue_role returns true only if get-role succeeds, false on a
\* not-found error and on any other error, never passes the error on, and
\* looks the role up by the name after "role/" in the ARN.
C8_VerifyRole ==
    (pc # "call" /\ input.fn = "verify_glue_role") =>
        /\ pc = "returned"
        /\ rc = <<"True">> <=> response = "ok"
        /\ response # "ok" => rc = <<"False">>
        /\ issued = <<[op |-> "get_role", arg |-> input.role_arn[Len(input.role_arn)]]>>

\* a lookup that failed with an error other than not-found gave false
C8_Witness ==
    /\ pc = "returned"
    /\ input.fn = "verify_glue_role"
    /\ response = "AccessDenied"
    /\ rc = <<"False">>
    /\ issued = <<[op |-> "get_role", arg |-> "test-role"]>>
====
